---- MODULE Spec2Model ----
(***************************************************************************)
(* A model of wtypes (src/wtypes/base.py, dataclass.py, python_types.py):  *)
(* schema documents, the type algebra that builds them, validation of a    *)
(* value against a document, and the guarded mutations of List and Dict.   *)
(*                                                                         *)
(* Python 3.7/3.8 semantics are modelled (the sources use                  *)
(* typing._GenericAlias and ForwardRef._evaluate(globals, locals)).        *)
(***************************************************************************)
EXTENDS Integers, Sequences, FiniteSets, TLC

(***************************************************************************)
(* Bounds of the model.                                                    *)
(***************************************************************************)
\* longest list a guarded List instance grows to
MaxLen == 3
\* most descriptors the type registry holds
MaxTypes == 2

(***************************************************************************)
(* Values.  Every JSON/Python value is a record; scalars share the fields  *)
(* kind, n, s.  kind "number" with frac = TRUE stands for the float        *)
(* n + 0.5, a number that is not an integer.                               *)
(***************************************************************************)
Keys == {"a", "b", "get"}

Absent == [kind |-> "absent", n |-> 0, s |-> ""]
IntV(i) == [kind |-> "integer", n |-> i, s |-> ""]
HalfV(i) == [kind |-> "number", n |-> i, s |-> ""]
StrV(t) == [kind |-> "string", n |-> 0, s |-> t]
BoolV(b) == [kind |-> "boolean", n |-> IF b THEN 1 ELSE 0, s |-> ""]
NullV == [kind |-> "null", n |-> 0, s |-> ""]
ListV(xs) == [kind |-> "array", items |-> xs]
TupleV(xs) == [kind |-> "tuple", items |-> xs]
ObjV(m) == [kind |-> "object", props |-> m]

\* the mapping with no key
NoProps == [k \in Keys |-> Absent]
\* the mapping {k: v}
One(k, v) == [NoProps EXCEPT ![k] = v]
\* the keys a mapping holds
KeysOf(m) == {k \in Keys : m[k] # Absent}

(***************************************************************************)
(* Schema documents.  A document is a record with one field per constraint *)
(* key; a key the document does not carry holds the marker of its field    *)
(* ("" / Absent / NoSchema / an absent form).  A constraint value is a     *)
(* value record, so that a document can also carry a value the meta-schema *)
(* rejects (minItems: -1, multipleOf: 0, minimum: "x").                    *)
(***************************************************************************)
NoSchema == [absent |-> TRUE]
FalseSchema == [boolschema |-> FALSE]
NoItems == [form |-> "absent", schemas |-> <<>>]
NoProperties == [present |-> FALSE, m |-> [k \in Keys |-> NoSchema]]
NoRequired == [present |-> FALSE, keys |-> <<>>]

EmptyDoc ==
  [type |-> "", minimum |-> Absent, maximum |-> Absent,
   exclusiveMinimum |-> Absent, exclusiveMaximum |-> Absent,
   multipleOf |-> Absent, minItems |-> Absent, maxItems |-> Absent,
   uniqueItems |-> Absent, items |-> NoItems, properties |-> NoProperties,
   required |-> NoRequired, additionalProperties |-> NoSchema,
   maxProperties |-> Absent, dependencies |-> {}, default |-> Absent,
   title |-> "", anyOf |-> <<>>, allOf |-> <<>>, oneOf |-> <<>>,
   not |-> NoSchema]

DocKeys == DOMAIN EmptyDoc

IsDocument(s) == DOMAIN s = DocKeys

\* the constraint keys a document carries
Present(d) == {f \in DocKeys : d[f] # EmptyDoc[f]}

\* simpleTypes of the Draft 7 meta-schema
simpleTypes ==
  {"array", "boolean", "integer", "null", "number", "object", "string"}

\* dict.update(a, b): every key of b overwrites the key of a, whole value
DictUpdate(a, b) == [f \in DocKeys |-> IF b[f] # EmptyDoc[f] THEN b[f] ELSE a[f]]

(***************************************************************************)
(* jsonschema.validate(object, schema) under Draft 7, as a predicate.     *)
(***************************************************************************)
IsNumber(v) == v.kind \in {"integer", "number"}
\* twice the numeric value: HalfV(i) is i + 0.5
Twice(v) == IF v.kind = "number" THEN 2 * v.n + 1 ELSE 2 * v.n

IsType(v, t) ==
  CASE t = "integer" -> v.kind = "integer"
    [] t = "number" -> IsNumber(v)
    [] t = "array" -> v.kind = "array"
    [] OTHER -> v.kind = t

Distinct(xs) == \A i, j \in 1..Len(xs) : i # j => xs[i] # xs[j]

SeqToSet(xs) == {xs[i] : i \in 1..Len(xs)}

RECURSIVE Validate(_, _)
Validate(v, d) ==
  /\ d.type # "" => IsType(v, d.type)
  /\ (d.minimum # Absent /\ IsNumber(v)) => Twice(v) >= Twice(d.minimum)
  /\ (d.maximum # Absent /\ IsNumber(v)) => Twice(v) <= Twice(d.maximum)
  /\ (d.exclusiveMinimum # Absent /\ IsNumber(v))
        => Twice(v) > Twice(d.exclusiveMinimum)
  /\ (d.exclusiveMaximum # Absent /\ IsNumber(v))
        => Twice(v) < Twice(d.exclusiveMaximum)
  /\ (d.multipleOf # Absent /\ IsNumber(v))
        => (v.kind = "integer" /\ v.n % d.multipleOf.n = 0)
  /\ v.kind = "array" =>
        /\ d.minItems # Absent => Len(v.items) >= d.minItems.n
        /\ d.maxItems # Absent => Len(v.items) <= d.maxItems.n
        /\ d.uniqueItems = BoolV(TRUE) => Distinct(v.items)
        /\ d.items.form = "dict" =>
              \A i \in 1..Len(v.items) : Validate(v.items[i], d.items.schemas[1])
        /\ d.items.form = "list" =>
              \A i \in 1..Len(v.items) :
                 i <= Len(d.items.schemas) => Validate(v.items[i], d.items.schemas[i])
  /\ v.kind = "object" =>
        /\ \A k \in KeysOf(v.props) :
              d.properties.m[k] # NoSchema => Validate(v.props[k], d.properties.m[k])
        /\ \A i \in 1..Len(d.required.keys) : d.required.keys[i] \in KeysOf(v.props)
        /\ \A k \in KeysOf(v.props) :
              d.properties.m[k] = NoSchema =>
                 /\ d.additionalProperties # FalseSchema
                 /\ d.additionalProperties # NoSchema
                       => Validate(v.props[k], d.additionalProperties)
        /\ d.maxProperties # Absent => Cardinality(KeysOf(v.props)) <= d.maxProperties.n
        /\ \A p \in d.dependencies :
              p[1] \in KeysOf(v.props) => p[2] \in KeysOf(v.props)
  /\ \A i \in 1..Len(d.allOf) : Validate(v, d.allOf[i])
  /\ d.anyOf # <<>> => \E i \in 1..Len(d.anyOf) : Validate(v, d.anyOf[i])
  /\ d.oneOf # <<>> => Cardinality({i \in 1..Len(d.oneOf) : Validate(v, d.oneOf[i])}) = 1
  /\ d.not # NoSchema => ~Validate(v, d.not)

(***************************************************************************)
(* The Draft 7 meta-schema, for the constraint keys of the model:          *)
(* jsonschema.validate(schema, Draft7Validator.META_SCHEMA).               *)
(***************************************************************************)
NonNegativeInteger(c) == c.kind = "integer" /\ c.n >= 0

RECURSIVE MetaValid(_)
MetaValid(d) ==
  /\ d.type = "" \/ d.type \in simpleTypes
  /\ \A f \in {"minimum", "maximum", "exclusiveMinimum", "exclusiveMaximum"} :
        d[f] = Absent \/ IsNumber(d[f])
  /\ d.multipleOf = Absent \/ (IsNumber(d.multipleOf) /\ Twice(d.multipleOf) > 0)
  /\ \A f \in {"minItems", "maxItems", "maxProperties"} :
        d[f] = Absent \/ NonNegativeInteger(d[f])
  /\ d.uniqueItems = Absent \/ d.uniqueItems.kind = "boolean"
  /\ CASE d.items.form = "absent" -> TRUE
       [] d.items.form = "dict" -> MetaValid(d.items.schemas[1])
       [] d.items.form = "list" ->
            /\ Len(d.items.schemas) >= 1
            /\ \A i \in 1..Len(d.items.schemas) : MetaValid(d.items.schemas[i])
       [] OTHER -> FALSE
  /\ \A k \in Keys : d.properties.m[k] = NoSchema \/ MetaValid(d.properties.m[k])
  /\ Distinct(d.required.keys)
  /\ d.additionalProperties \in {NoSchema, FalseSchema}
        \/ MetaValid(d.additionalProperties)
  /\ \A f \in {"anyOf", "allOf", "oneOf"} :
        \A i \in 1..Len(d[f]) : MetaValid(d[f][i])
  /\ d.not = NoSchema \/ MetaValid(d.not)

\* _Implementation.validate_type: the hook every type creation runs
validate_type(schema) == MetaValid(schema)

\* _Implementation.validate_object: raises ValidationError unless valid
validate_object(object, schema) == Validate(object, schema)

(***************************************************************************)
(* Type descriptors and the algebra of _SchemaMeta.                        *)
(*   name     __name__                                                     *)
(*   schema   _schema, the merged document                                 *)
(*   mro      the _schema of each class of __mro__, base-most first        *)
(*   notitle  a subclass of _NoTitle                                       *)
(*   noinit   _NoInit.__new__ is the __new__ the MRO resolves to           *)
(*   marked   _NoInit is among the bases, before or after Trait            *)
(*   meta     the metaclass                                                *)
(*   base     the Python base the instances are built on                   *)
(*   ann      __annotations__ as the class sees it: <<key, type>> pairs    *)
(*   attrs    the annotated keys for which hasattr(cls, key) holds         *)
(***************************************************************************)
NoType == [failed |-> TRUE]

\* _SchemaMeta._merge_schema: update over reversed(cls.__mro__)
RECURSIVE merge_schema(_)
merge_schema(docs) ==
  IF docs = <<>> THEN EmptyDoc
  ELSE DictUpdate(merge_schema(SubSeq(docs, 1, Len(docs) - 1)), docs[Len(docs)])

\* Properties[annotations]._schema.properties
AnnProperties(ann) ==
  [k \in Keys |->
     IF \E i \in 1..Len(ann) : ann[i][1] = k
     THEN (CHOOSE p \in SeqToSet(ann) : p[1] = k)[2]
     ELSE NoSchema]

\* the annotated keys without a class attribute, in declaration order
RECURSIVE RequiredOf(_, _)
RequiredOf(ann, attrs) ==
  IF ann = <<>> THEN <<>>
  ELSE (IF ann[1][1] \in attrs THEN <<>> ELSE <<ann[1][1]>>) \o RequiredOf(Tail(ann), attrs)

\* _Object.__init_subclass__ on the class body's _schema
Object_init_subclass(body, ann, attrs) ==
  LET props == [k \in Keys |->
                  IF AnnProperties(ann)[k] # NoSchema THEN AnnProperties(ann)[k]
                  ELSE body.properties.m[k]]
      withprops == [body EXCEPT !.properties = [present |-> TRUE, m |-> props]]
      required == RequiredOf(ann, attrs)
  IN  IF required # <<>>
      THEN [withprops EXCEPT !.required = [present |-> TRUE, keys |-> required]]
      ELSE withprops

ObjectBases == {"dict", "dataclass"}

\* names every dict carries as attributes, among others
DictAttributes == {"get", "items", "keys", "values", "update", "pop", "copy", "clear"}

\* hasattr(cls, key) inside __init_subclass__: a class attribute of the body
\* or of a base; a class derived from Dict also has the attributes of dict
hasattr(cls, key) ==
  \/ key \in cls.attrs
  \/ cls.base = "dict" /\ key \in DictAttributes

\* the annotated keys for which hasattr(cls, key) holds
HasAttrs(cls) == {p[1] : p \in {q \in SeqToSet(cls.ann) : hasattr(cls, q[1])}}

\* an __init_subclass__ that updates the document the class inherits
init_subclass_document_inherited(cls) == "inherited"

\* _Object.__init_subclass__, line 614: cls._schema is rebound to a deep
\* copy before it is updated in place
init_subclass_document(cls) == "copy"

\* _SchemaMeta.__new__ for type(name, (cls,), {"_schema": body}, **schema);
\* a class derived from _Object runs __init_subclass__ on its body first
SchemaMeta_new(name, cls, body, schema) ==
  LET own == IF cls.base \in ObjectBases
             THEN Object_init_subclass(body, cls.ann, HasAttrs(cls)) ELSE body
      merged == DictUpdate(merge_schema(cls.mro \o <<own>>), schema)
  IN  IF validate_type(merged)
      THEN [cls EXCEPT !.name = name, !.schema = merged, !.mro = cls.mro \o <<merged>>]
      ELSE NoType

\* _SchemaMeta.create
create(cls, name, schema) ==
  IF cls = NoType THEN NoType ELSE SchemaMeta_new(name, cls, cls.schema, schema)

\* _construct_title
construct_title(cls) ==
  IF cls.notitle THEN ""
  ELSE IF cls.schema.title # "" THEN cls.schema.title ELSE cls.name

\* an addition that also writes the new name into the document
SchemaMeta_add_titled(cls, object) ==
  IF cls = NoType \/ object = NoType THEN NoType
  ELSE IF ~IsDocument(object.schema) THEN NoType
  ELSE create(cls, construct_title(cls) \o construct_title(object),
              [object.schema EXCEPT !.title = construct_title(cls) \o construct_title(object)])

\* _SchemaMeta.__add__
SchemaMeta_add(cls, object) ==
  IF cls = NoType \/ object = NoType THEN NoType
  \* {**schema} of a _schema that is no mapping raises TypeError
  ELSE IF ~IsDocument(object.schema) THEN NoType
  ELSE create(cls, construct_title(cls) \o construct_title(object), object.schema)

\* _lower_key, on the names of the modifier types
lower_key(name) ==
  CASE name = "Items" -> "items"
    [] name = "MinItems" -> "minItems"
    [] name = "MaxItems" -> "maxItems"
    [] name = "UniqueItems" -> "uniqueItems"
    [] name = "Properties" -> "properties"
    [] name = "Required" -> "required"
    [] name = "AdditionalProperties" -> "additionalProperties"
    [] name = "maxProperties" -> "maxProperties"
    [] name = "Dependencies" -> "dependencies"
    [] name = "Minimum" -> "minimum"
    [] name = "Maximum" -> "maximum"
    [] name = "ExclusiveMinimum" -> "exclusiveMinimum"
    [] name = "ExclusiveMaximum" -> "exclusiveMaximum"
    [] name = "MultipleOf" -> "multipleOf"
    [] name = "Default" -> "default"
    [] name = "Title" -> "title"
    [] name = "AnyOf" -> "anyOf"
    [] name = "AllOf" -> "allOf"
    [] name = "OneOf" -> "oneOf"
    [] name = "Not" -> "not"
    [] OTHER -> "title"

\* _ConstType.__getitem__: cls.create(cls.__name__, **{key: value})
ConstType_getitem(cls, object) ==
  create(cls, cls.name, [EmptyDoc EXCEPT ![lower_key(cls.name)] = object])

Descriptor(name, schema, meta, base, notitle, noinit) ==
  [name |-> name, schema |-> schema, mro |-> <<EmptyDoc, schema>>,
   notitle |-> notitle, noinit |-> noinit, marked |-> noinit, meta |-> meta,
   base |-> base, ann |-> <<>>, attrs |-> {}]

Trait == Descriptor("Trait", EmptyDoc, "_SchemaMeta", "object", FALSE, FALSE)

\* _ContainerType.__getitem__: cls + Trait.create(key, **{key: schema})
ContainerType_getitem(cls, object) ==
  SchemaMeta_add(cls,
    create(Trait, lower_key(cls.name), [EmptyDoc EXCEPT ![lower_key(cls.name)] = object]))

(***************************************************************************)
(* The types base.py declares, as far as the model uses them.              *)
(***************************************************************************)
TypeDoc(t) == [EmptyDoc EXCEPT !.type = t]

Integer == Descriptor("Integer", TypeDoc("integer"), "_NumericSchema", "int", FALSE, FALSE)
Float == Descriptor("Float", TypeDoc("number"), "_NumericSchema", "float", FALSE, FALSE)
String == Descriptor("String", TypeDoc("string"), "_StringSchema", "str", FALSE, FALSE)
Bool == Descriptor("Bool", TypeDoc("boolean"), "_SchemaMeta", "bool", FALSE, FALSE)
Null == Descriptor("Null", TypeDoc("null"), "_SchemaMeta", "null", FALSE, FALSE)
List == Descriptor("List", TypeDoc("array"), "_ListSchema", "list", FALSE, FALSE)
\* class Tuple(List): no _schema of its own
Tuple == [SchemaMeta_new("Tuple", List, List.schema, EmptyDoc) EXCEPT !.base = "tuple"]
\* class Unique(List, uniqueItems=True)
Unique ==
  SchemaMeta_new("Unique", List, List.schema, [EmptyDoc EXCEPT !.uniqueItems = BoolV(TRUE)])

\* modifier types; Trait precedes _NoInit in the bases of all but the numeric ones
Modifier(name, meta, noinit) ==
  [Descriptor(name, EmptyDoc, meta, "object", TRUE, noinit) EXCEPT !.marked = TRUE]
Items == Modifier("Items", "_ContainerType", FALSE)
MinItems == Modifier("MinItems", "_ConstType", FALSE)
MaxItems == Modifier("MaxItems", "_ConstType", FALSE)
Properties == Modifier("Properties", "_ContainerType", FALSE)
Required == Modifier("Required", "_ContainerType", FALSE)
AdditionalProperties == Modifier("AdditionalProperties", "_ContainerType", FALSE)
\* class maxProperties(Trait, _NoInit, _NoTitle, metaclass=_ConstType)
maxProperties == Modifier("maxProperties", "_ConstType", FALSE)
Dependencies == Modifier("Dependencies", "_ConstType", FALSE)
AnyOf ==
  [Descriptor("AnyOf", EmptyDoc, "_ContainerType", "object", FALSE, FALSE) EXCEPT !.marked = TRUE]
AllOf ==
  [Descriptor("AllOf", EmptyDoc, "_ContainerType", "object", FALSE, FALSE) EXCEPT !.marked = TRUE]
OneOf ==
  [Descriptor("OneOf", EmptyDoc, "_ContainerType", "object", FALSE, FALSE) EXCEPT !.marked = TRUE]
Not == Descriptor("Not", EmptyDoc, "_ContainerType", "object", FALSE, FALSE)
Minimum == Descriptor("Minimum", EmptyDoc, "_ConstType", "object", FALSE, TRUE)
Maximum == Descriptor("Maximum", EmptyDoc, "_ConstType", "object", FALSE, TRUE)
ExclusiveMinimum == Descriptor("ExclusiveMinimum", EmptyDoc, "_ConstType", "object", FALSE, TRUE)
ExclusiveMaximum == Descriptor("ExclusiveMaximum", EmptyDoc, "_ConstType", "object", FALSE, TRUE)
MultipleOf == Descriptor("MultipleOf", EmptyDoc, "_ConstType", "object", FALSE, TRUE)
Default == Descriptor("Default", EmptyDoc, "_ConstType", "object", FALSE, TRUE)

\* _get_schema_from_typeish on a list or tuple of types
SchemasOf(types) == [i \in 1..Len(types) |-> types[i].schema]

\* _ListSchema.__getitem__; object is the bracketed tuple (or the one type)
ListSchema_getitem(cls, object, istuple) ==
  IF cls.base = "tuple" /\ istuple
  THEN SchemaMeta_add(cls,
         ContainerType_getitem(Items, [form |-> "list", schemas |-> SchemasOf(object)]))
  ELSE IF istuple
  THEN SchemaMeta_add(cls,
         ContainerType_getitem(Items,
           [form |-> "dict",
            schemas |-> <<ContainerType_getitem(AnyOf, SchemasOf(object)).schema>>]))
  ELSE SchemaMeta_add(cls,
         ContainerType_getitem(Items, [form |-> "dict", schemas |-> <<object[1].schema>>]))

\* _NumericSchema.__ge__, __gt__, __le__, __lt__
NumericSchema_ge(cls, object) == SchemaMeta_add(cls, ConstType_getitem(Minimum, object))
NumericSchema_gt(cls, object) == SchemaMeta_add(cls, ConstType_getitem(ExclusiveMinimum, object))
NumericSchema_le(cls, object) == SchemaMeta_add(cls, ConstType_getitem(Maximum, object))
NumericSchema_lt(cls, object) == SchemaMeta_add(cls, ConstType_getitem(ExclusiveMaximum, object))

\* a reversed comparison read as the same comparison of the type
reflected_same(op) == op

\* n op T: int.__op__(n, T) is NotImplemented, so Python calls the
\* reflected method of the metaclass: n < T is T.__gt__(n), and so on
reflected(op) ==
  CASE op = "lt" -> "gt"
    [] op = "le" -> "ge"
    [] op = "gt" -> "lt"
    [] OTHER -> "le"

\* T op n, or n op T when reversed
NumericSchema_compare(cls, op, object, reversed) ==
  LET method == IF reversed THEN reflected(op) ELSE op
  IN  CASE method = "ge" -> NumericSchema_ge(cls, object)
        [] method = "gt" -> NumericSchema_gt(cls, object)
        [] method = "le" -> NumericSchema_le(cls, object)
        [] OTHER -> NumericSchema_lt(cls, object)

\* _ListSchema.__lt__ and __gt__
ListSchema_lt(cls, n) == SchemaMeta_add(cls, ConstType_getitem(MaxItems, IntV(n)))
ListSchema_gt(cls, n) == SchemaMeta_add(cls, ConstType_getitem(MinItems, IntV(n)))

(***************************************************************************)
(* Python list primitives.  Indices are Python's: 0-based, negative from   *)
(* the end.                                                                *)
(***************************************************************************)
\* whether l[id] exists
InRange(n, id) == -n <= id /\ id < n
\* the 1-based position of l[id]
Pos(n, id) == IF id >= 0 THEN id + 1 ELSE n + id + 1
\* l[a:b] for 0 <= a <= b
Slice(l, a, b) ==
  LET lo == IF a > Len(l) THEN Len(l) ELSE a
      hi == IF b > Len(l) THEN Len(l) ELSE b
  IN  SubSeq(l, lo + 1, hi)
\* list.insert(id, x): the index is clamped to 0..len
list_insert(l, id, x) ==
  LET n == Len(l)
      i == IF id < 0 THEN (IF n + id < 0 THEN 0 ELSE n + id) ELSE (IF id > n THEN n ELSE id)
  IN  SubSeq(l, 1, i) \o <<x>> \o SubSeq(l, i + 1, n)
\* l with l[id] removed, id in range
list_remove(l, id) ==
  SubSeq(l, 1, Pos(Len(l), id) - 1) \o SubSeq(l, Pos(Len(l), id) + 1, Len(l))
\* list.pop(index, default): list.pop takes at most one argument, so the
\* two-argument call raises TypeError before anything is removed
list_pop2(l, index, default) == [raised |-> "TypeError", list |-> l, value |-> Absent]

(***************************************************************************)
(* Guarded List operations.  Each yields the list after the call and how   *)
(* the call ended: "ok", or the exception it raised.                       *)
(***************************************************************************)
\* `if items:` -- an absent or empty items constraint is skipped
Truthy(items) ==
  /\ items.form # "absent"
  /\ items.form = "dict" => items.schemas[1] # EmptyDoc

\* a _verify_item that checks nothing
verify_item_unchecked(schema, object, id) == "ok"

\* List._verify_item with an int id
verify_item(schema, object, id) ==
  LET items == schema.items
  IN  IF ~Truthy(items) THEN "ok"
      ELSE IF items.form = "dict"
      THEN (IF validate_object(object, items.schemas[1]) THEN "ok" ELSE "ValidationError")
      ELSE IF ~InRange(Len(items.schemas), id) THEN "IndexError"
      ELSE IF validate_object(object, items.schemas[Pos(Len(items.schemas), id)])
      THEN "ok" ELSE "ValidationError"

\* List._verify_item with id = slice(start, stop) and a list object
verify_slice(schema, object, start, stop) ==
  LET items == schema.items
      sub == IF items.form = "dict"
             THEN ListSchema_getitem(List, <<[schema |-> items.schemas[1]]>>, FALSE)
             ELSE ListSchema_getitem(Tuple,
                    [i \in 1..Len(Slice(items.schemas, start, stop)) |->
                       [schema |-> Slice(items.schemas, start, stop)[i]]], TRUE)
  IN  IF ~Truthy(items) THEN "ok"
      ELSE IF sub = NoType THEN "ValidationError"
      ELSE IF validate_object(ListV(object), sub.schema) THEN "ok"
      ELSE "ValidationError"

\* List.__setitem__
List_setitem(schema, self, id, object) ==
  LET v == verify_item(schema, object, id)
  IN  IF v # "ok" THEN [list |-> self, res |-> v]
      ELSE IF ~InRange(Len(self), id) THEN [list |-> self, res |-> "IndexError"]
      ELSE [list |-> [self EXCEPT ![Pos(Len(self), id)] = object], res |-> "ok"]

\* List.append
List_append(schema, self, object) ==
  LET v == verify_item(schema, object, Len(self) + 1)
  IN  IF v # "ok" THEN [list |-> self, res |-> v]
      ELSE [list |-> Append(self, object), res |-> "ok"]

\* List.insert
List_insert(schema, self, id, object) ==
  LET v == verify_item(schema, object, id)
  IN  IF v # "ok" THEN [list |-> self, res |-> v]
      ELSE [list |-> list_insert(self, id, object), res |-> "ok"]

\* List.extend
List_extend(schema, self, object) ==
  LET v == verify_slice(schema, object, Len(self), Len(self) + 3)
  IN  IF v # "ok" THEN [list |-> self, res |-> v]
      ELSE [list |-> self \o object, res |-> "ok"]

\* a pop that removes the element and never restores it
List_pop_norollback(schema, self, index) ==
  IF InRange(Len(self), index)
  THEN [list |-> list_remove(self, index), res |-> "ok"]
  ELSE [list |-> self, res |-> "IndexError"]

\* List.pop: value = super().pop(index, default); revalidate; on
\* ValidationError self.insert(index, value); nothing is returned
List_pop(schema, self, index) ==
  LET popped == list_pop2(self, index, Absent)
  IN  IF popped.raised # ""
      THEN [list |-> popped.list, res |-> popped.raised]
      ELSE IF validate_object(ListV(popped.list), schema)
      THEN [list |-> popped.list, res |-> "ok"]
      ELSE List_insert(schema, popped.list, index, popped.value)

(***************************************************************************)
(* Mapping types: _Object, Dict, DataClass and their brackets.             *)
(***************************************************************************)
\* class Dict(Trait, dict, _Object); _Object carries _schema = {type: object}
Dict ==
  SchemaMeta_new("Dict",
    Descriptor("_Object", TypeDoc("object"), "_ObjectSchema", "dict", FALSE, FALSE),
    TypeDoc("object"), EmptyDoc)

\* class DataClass(wtypes.Trait, wtypes.base._Object)
DataClass ==
  SchemaMeta_new("DataClass",
    Descriptor("_Object", TypeDoc("object"), "_ObjectSchema", "dataclass", FALSE, FALSE),
    TypeDoc("object"), EmptyDoc)

\* class name(cls): <annotations>; attrs are the annotated keys given a
\* default.  A body without annotations sees the inherited __annotations__.
ClassDecl(cls, name, ann, attrs) ==
  SchemaMeta_new(name,
    [cls EXCEPT !.ann = IF ann = <<>> THEN cls.ann ELSE ann,
                !.attrs = cls.attrs \cup attrs],
    cls.schema, EmptyDoc)

\* the document of cls once "class name(cls): <annotations>" has run: the
\* class body has no _schema, so __init_subclass__ starts from the one of cls
ClassDecl_base(cls, ann, attrs) ==
  IF init_subclass_document(cls) = "inherited"
  THEN LET made == [cls EXCEPT !.ann = IF ann = <<>> THEN cls.ann ELSE ann,
                               !.attrs = cls.attrs \cup attrs]
       IN  Object_init_subclass(cls.schema, made.ann, HasAttrs(made))
  ELSE cls.schema

\* _get_schema_from_typeish on a dict of types
PropertiesOf(ann) == [present |-> TRUE, m |-> AnnProperties(ann)]

\* _ObjectSchema.__getitem__ with a dict
ObjectSchema_getitem(cls, ann) ==
  SchemaMeta_add(cls, ContainerType_getitem(Properties, PropertiesOf(ann)))

\* _ObjectSchema.__getitem__ with types: AdditionalProperties[AnyOf[object]]
ObjectSchema_getitem_types(cls, object) ==
  SchemaMeta_add(cls,
    ContainerType_getitem(AdditionalProperties,
      ContainerType_getitem(AnyOf, SchemasOf(object)).schema))

(***************************************************************************)
(* Guarded record operations.  A mapping is a function on Keys; Absent     *)
(* marks a key the mapping does not hold.                                  *)
(***************************************************************************)
\* {**self._schema, "required": []}
Relaxed(schema) == [schema EXCEPT !.required = [present |-> TRUE, keys |-> <<>>]]

\* dict.update(self, args)
dict_update(self, args) == [k \in Keys |-> IF args[k] # Absent THEN args[k] ELSE self[k]]

\* the validation both keyed writes run
verify_key(schema, key, object) ==
  IF schema.properties.m[key] # NoSchema
  THEN validate_object(object, schema.properties.m[key])
  ELSE validate_object(ObjV(One(key, object)), Relaxed(schema))

\* Dict.__setitem__
Dict_setitem(schema, self, key, object) ==
  IF verify_key(schema, key, object)
  THEN [map |-> [self EXCEPT ![key] = object], res |-> "ok"]
  ELSE [map |-> self, res |-> "ValidationError"]

\* an update that checks and writes key by key
Dict_update_perkey(schema, self, args) ==
  [map |-> [k \in Keys |->
              IF args[k] # Absent /\ verify_key(schema, k, args[k]) THEN args[k] ELSE self[k]],
   res |-> IF \A k \in KeysOf(args) : verify_key(schema, k, args[k])
           THEN "ok" ELSE "ValidationError"]

\* Dict.update
Dict_update(schema, self, args) ==
  IF validate_object(ObjV(args), Relaxed(schema))
  THEN [map |-> dict_update(self, args), res |-> "ok"]
  ELSE [map |-> self, res |-> "ValidationError"]

\* dict.get(key): None when the key is missing
dict_get(m, key) == IF m[key] # Absent THEN m[key] ELSE NullV

\* DataClass.__setattr__: a dict value is replaced by its own entry under key
DataClass_setattr(schema, self, key, object) ==
  LET value == IF object.kind = "object" THEN dict_get(object.props, key) ELSE object
  IN  IF verify_key(schema, key, value)
      THEN [map |-> [self EXCEPT ![key] = value], res |-> "ok"]
      ELSE [map |-> self, res |-> "ValidationError"]

(***************************************************************************)
(* Construction T(v) and the probe isinstance(v, T).                       *)
(***************************************************************************)
\* _SchemaMeta.__instancecheck__: validate, and False on any exception
instancecheck(cls, object) == validate_object(object, cls.schema)

\* dict(v): a mapping is copied, a sequence of key/value pairs is read as
\* a mapping, the empty sequence and the empty string give {}.  An element
\* that is no pair raises: TypeError when it cannot be iterated, ValueError
\* when its length is not 2 (the pairs of the model have keys in Keys).
IsPair(x) ==
  /\ x.kind \in {"array", "tuple"}
  /\ Len(x.items) = 2
  /\ x.items[1].kind = "string"
  /\ x.items[1].s \in Keys

dict_new(v) ==
  CASE v.kind = "object" -> [raised |-> "", map |-> v.props]
    [] v.kind \in {"array", "tuple"} ->
         IF \A i \in 1..Len(v.items) : IsPair(v.items[i])
         THEN [raised |-> "",
               map |-> [k \in Keys |->
                          IF \E i \in 1..Len(v.items) : v.items[i].items[1].s = k
                          THEN v.items[CHOOSE i \in 1..Len(v.items) :
                                          /\ v.items[i].items[1].s = k
                                          /\ \A j \in (i + 1)..Len(v.items) :
                                                v.items[j].items[1].s # k].items[2]
                          ELSE Absent]]
         ELSE LET bad == CHOOSE i \in 1..Len(v.items) :
                            /\ ~IsPair(v.items[i])
                            /\ \A j \in 1..(i - 1) : IsPair(v.items[j])
              IN  [raised |-> IF v.items[bad].kind \in {"array", "tuple", "string", "object"}
                              THEN "ValueError" ELSE "TypeError",
                   map |-> NoProps]
    [] v.kind = "string" ->
         IF v.s = "" THEN [raised |-> "", map |-> NoProps]
         ELSE [raised |-> "ValueError", map |-> NoProps]
    [] OTHER -> [raised |-> "TypeError", map |-> NoProps]

ConstTypes == {"_ConstType", "_ContainerType"}

\* _object_to_webtype
object_to_webtype(object) ==
  CASE object.kind = "object" -> Dict
    [] object.kind = "string" -> String
    [] object.kind = "tuple" -> Tuple
    [] object.kind = "array" -> List
    [] object.kind = "boolean" -> Bool
    [] object.kind \in {"integer", "number"} -> Float
    [] OTHER -> Null

\* Trait._resolve_defaults: the arguments given, else the document's
\* default, else the record of the properties that declare a default
PropertyDefault(p) == IF IsDocument(p) THEN p.default ELSE Absent

\* a resolution that looks at the properties before the document's default
resolve_defaults_properties_first(schema, args) ==
  IF args # <<>> THEN args
  ELSE IF schema.properties.present
  THEN <<ObjV([k \in Keys |-> PropertyDefault(schema.properties.m[k])])>>
  ELSE IF schema.default # Absent THEN <<schema.default>>
  ELSE <<>>

resolve_defaults(schema, args) ==
  IF args # <<>> THEN args
  ELSE IF schema.default # Absent THEN <<schema.default>>
  ELSE IF schema.properties.present
  THEN <<ObjV([k \in Keys |-> PropertyDefault(schema.properties.m[k])])>>
  ELSE <<>>

\* an instance that is no JSON value (object.__new__(cls))
OtherV == [kind |-> "other"]

\* what base.__new__(cls) followed by __init__() builds
ZeroValue(base) ==
  CASE base \in {"int", "float"} -> IntV(0)
    [] base = "str" -> StrV("")
    [] base \in {"list", "tuple"} -> ListV(<<>>)
    [] base = "dict" -> ObjV(NoProps)
    [] base = "bool" -> BoolV(FALSE)
    [] base = "null" -> NullV
    [] OTHER -> OtherV

Raised(exception) == [res |-> exception, value |-> Absent, tag |-> NoType]
Returned(value, tag) == [res |-> "ok", value |-> value, tag |-> tag]

\* cls(*args) for no argument or one: how the call ends, the value returned
\* and the type its instance belongs to (NoType for a plain bool or None).
\* Bool.__new__, Null.__new__, List.__new__, Dict.__new__ and
\* _NoInit.__new__ come before Trait.__new__.
RECURSIVE new(_, _)
new(cls, args) ==
  LET schema == cls.schema
      \* Dict.__new__: dict(*args) when an argument is given
      coerced == IF cls.base = "dict" /\ args # <<>> THEN dict_new(args[1])
                 ELSE [raised |-> "", map |-> NoProps]
      given == IF cls.base = "dict" /\ args # <<>> /\ coerced.raised = ""
               THEN <<ObjV(coerced.map)>> ELSE args
      resolved == resolve_defaults(schema, given)
      \* List.__new__ turns a tuple into a list
      final == IF cls.base \in {"list", "tuple"} /\ resolved # <<>>
                  /\ resolved[1].kind = "tuple"
               THEN <<ListV(resolved[1].items)>> ELSE resolved
  IN  IF cls.noinit THEN Raised("TypeError")
      ELSE IF coerced.raised # "" THEN Raised(coerced.raised)
      ELSE IF cls.base = "bool"
      THEN LET object == IF final = <<>> THEN BoolV(FALSE) ELSE final[1]
           IN  IF validate_object(object, schema) THEN Returned(object, NoType)
               ELSE Raised("ValidationError")
      ELSE IF final # <<>> /\ ~validate_object(final[1], schema)
      THEN Raised("ValidationError")
      ELSE IF cls.base = "null" THEN Returned(NullV, NoType)
      ELSE IF cls.meta \in ConstTypes \/ cls.base = "tuple"
      THEN IF final # <<>> THEN new(object_to_webtype(final[1]), final)
           \* return self, where self was never assigned
           ELSE Raised("UnboundLocalError")
      \* super().__new__ is _NoInit.__new__ when _NoInit follows Trait
      ELSE IF cls.marked THEN Raised("TypeError")
      \* object.__new__(cls, v) takes no argument
      ELSE IF cls.base = "object" /\ final # <<>> THEN Raised("TypeError")
      ELSE IF final # <<>> THEN Returned(final[1], cls)
      ELSE IF validate_object(ZeroValue(cls.base), schema)
      THEN Returned(ZeroValue(cls.base), cls)
      ELSE Raised("ValidationError")

\* cls(v): "ok", or the exception raised
construct(cls, v) == new(cls, <<v>>).res

(***************************************************************************)
(* Forward references (python_types.py).  The _schema of a forward type is *)
(* no document: it is None, or a typing.Union of ForwardRef objects.       *)
(***************************************************************************)
NoneSchema == [none |-> TRUE]
ForwardRefs(names) == [union |-> names]

\* _ContextMeta.__new__: the class named name, derived from cls, whose body
\* carries _schema
ContextMeta_new(name, cls, body) ==
  [cls EXCEPT !.name = name, !.mro = cls.mro \o <<body>>]

\* _ForwardSchema._merge_schema: the first _schema over reversed(__mro__)
\* that is neither empty nor a dict, else None
ForwardSchema_merge_schema(mro) ==
  LET types == SelectSeq(mro, LAMBDA x : x # NoneSchema /\ ~IsDocument(x))
  IN  IF types = <<>> THEN NoneSchema ELSE types[1]

\* _ForwardSchema.__new__
ForwardSchema_new(name, cls, schema) ==
  LET made == ContextMeta_new(name, cls, schema)
      merged == ForwardSchema_merge_schema(made.mro)
  IN  [made EXCEPT !.schema = merged, !.mro = cls.mro \o <<merged>>]

\* _ContextMeta.create
ContextMeta_create(cls, name) == ForwardSchema_new(name, cls, EmptyDoc)

\* class Forward(metaclass=_ForwardSchema)
Forward ==
  [name |-> "Forward", schema |-> NoneSchema, mro |-> <<NoneSchema>>,
   notitle |-> FALSE, noinit |-> FALSE, marked |-> FALSE, meta |-> "_ForwardSchema",
   base |-> "object", ann |-> <<>>, attrs |-> {}]

\* _ForwardSchema.__getitem__: _schema is assigned after create
ForwardSchema_getitem(cls, object) ==
  LET made == ContextMeta_create(cls, cls.name)
  IN  [made EXCEPT !.schema = ForwardRefs(object),
                   !.mro = cls.mro \o <<ForwardRefs(object)>>]

\* _ForwardSchema.__add__: type(cls.__name__, (cls, object), {}); a base
\* given twice, or bases of unrelated metaclasses, raise TypeError
ForwardSchema_add(cls, object) ==
  IF object = cls \/ object.meta # cls.meta THEN NoType
  ELSE ForwardSchema_new(cls.name, [cls EXCEPT !.mro = object.mro \o cls.mro], EmptyDoc)

\* class Class(Forward), class Instance(Forward)
Class == [Forward EXCEPT !.name = "Class"]
Instance == [Forward EXCEPT !.name = "Instance"]

\* the dotted names of the model: module.attribute
ModuleOf(name) == IF name = "pandas.DataFrame" THEN "pandas" ELSE "builtins"
\* the attributes a module has once loaded
HasAttribute(name) == name \in {"builtins.range", "builtins.int", "pandas.DataFrame"}

Failed(exception) == [res |-> exception, value |-> {}]

\* ForwardRef._evaluate(sys.modules, sys.modules): eval of the dotted name
\* with the loaded modules as namespace; nothing is imported
ForwardRef_evaluate(name, modules) ==
  IF ModuleOf(name) \notin modules THEN Failed("NameError")
  ELSE IF ~HasAttribute(name) THEN Failed("AttributeError")
  ELSE [res |-> "ok", value |-> {name}]

\* _ForwardSchema.eval.  typing.Union of one reference is the reference; a
\* Union of several has __args__ and is returned as the tuple of its
\* references, none of them evaluated
ForwardSchema_eval(cls, modules) ==
  IF cls.schema = NoneSchema THEN Failed("AttributeError")
  ELSE IF Cardinality(cls.schema.union) = 1
  THEN ForwardRef_evaluate(CHOOSE n \in cls.schema.union : TRUE, modules)
  ELSE [res |-> "unevaluated", value |-> cls.schema.union]

\* a Python object: the class named `of`, or an instance of it
PyObject(of, isclass) == [of |-> of, isclass |-> isclass]

\* cls.validate(object): _ForwardSchema.validate, Class.validate (every
\* exception becomes ValidationError), Instance.validate (isinstance with a
\* tuple of unevaluated references raises TypeError)
ForwardSchema_validate(cls, object, modules) ==
  LET found == ForwardSchema_eval(cls, modules)
  IN  CASE cls.name = "Class" ->
             IF found.res = "ok" /\ object.isclass /\ object.of \in found.value
             THEN "ok" ELSE "ValidationError"
        [] cls.name = "Instance" ->
             IF found.res = "unevaluated" THEN "TypeError"
             ELSE IF found.res # "ok" THEN found.res
             ELSE IF ~object.isclass /\ object.of \in found.value
             THEN "ok" ELSE "ValidationError"
        [] OTHER -> IF found.res \in {"ok", "unevaluated"} THEN "ok" ELSE found.res

\* _SchemaMeta.__instancecheck__ on a forward type
ForwardSchema_instancecheck(cls, object, modules) ==
  ForwardSchema_validate(cls, object, modules) = "ok"

(***************************************************************************)
(* Evented mappings (evented.py).  Two evented Dict objects e and f with   *)
(* no schema beyond type object; 0 marks a key a mapping does not hold     *)
(* (get(key, None) is None).  A world is the members of both objects with  *)
(* their _deferred_changed and _depth, and the exception being raised.     *)
(***************************************************************************)
EObjects == {"e", "f"}
EKeys == {"a", "b"}
EValues == 1..2

\* the callable of a dlink: none, lambda x: x, lambda x: 3 - x
Callables == {"same", "other"}
call(function, x) == IF function = "other" THEN 3 - x ELSE x

NoLinks == [o \in EObjects |-> [k \in EKeys |-> <<>>]]

\* wtypes_impl.dlink on mappings that do not hold the target yet: the entry
\* _registered_links[source][id(that)][target] = callable, kept in the
\* order of the nested dicts
wtypes_impl_dlink(R, this, source, that, target, callable) ==
  IF R.raised # "" THEN R
  ELSE IF this = that /\ source = target THEN [R EXCEPT !.raised = "TypeError"]
  ELSE LET seq == R.links[this][source]
           entry == [that |-> that, to |-> target, fn |-> callable]
           at == {i \in 1..Len(seq) : seq[i].that = that /\ seq[i].to = target}
           same == {i \in 1..Len(seq) : seq[i].that = that}
           after == CHOOSE i \in same : \A j \in same : j <= i
           placed == IF at # {} THEN [seq EXCEPT ![CHOOSE i \in at : TRUE] = entry]
                     ELSE IF same = {} THEN Append(seq, entry)
                     ELSE SubSeq(seq, 1, after) \o <<entry>> \o SubSeq(seq, after + 1, Len(seq))
       IN  [R EXCEPT !.links[this][source] = placed]

\* Link.dlink
Link_dlink(R, this, source, that, target, callable) ==
  wtypes_impl_dlink(R, this, source, that, target, callable)

\* Link.link: a dlink each way with no callable
Link_link(R, this, source, that, target) ==
  wtypes_impl_dlink(wtypes_impl_dlink(R, this, source, that, target, "none"),
                    that, target, this, source, "none")

\* self._propagate(*changed) while _depth > 0: changed is kept only when
\* nothing is deferred yet
Link_propagate_deferred(W, self, changed) ==
  [W EXCEPT !.deferred[self] = IF @ # <<>> THEN @ ELSE changed]

\* the body of `with self:` in _EventedDict.__setitem__
EventedDict_setitem_body(W, self, key, object) ==
  LET prior == W.maps[self][key]
      stored == [W EXCEPT !.depth[self] = @ + 1, !.maps[self][key] = object]
  IN  IF object # prior THEN Link_propagate_deferred(stored, self, <<key>>) ELSE stored

\* the body of `with self:` in _EventedDict.update; args is the sequence of
\* the <<key, value>> pairs of the dict, in its order
EventedDict_update_body(W, self, args) ==
  LET stored == [W EXCEPT !.depth[self] = @ + 1,
                          !.maps[self] = [k \in EKeys |->
                             IF \E i \in 1..Len(args) : args[i][1] = k
                             THEN (CHOOSE p \in SeqToSet(args) : p[1] = k)[2]
                             ELSE @[k]]]
  IN  Link_propagate_deferred(stored, self, <<args[1][1]>>)

RECURSIVE EventedDict_setitem(_, _, _, _, _)
RECURSIVE EventedDict_update(_, _, _, _)
RECURSIVE Link_exit(_, _, _)
RECURSIVE Link_loop(_, _, _)
RECURSIVE Link_deliver(_, _, _, _, _)

\* one pass of `while self._deferred_changed:` in Link._propagate
Link_iterate(L, W, self) ==
  CHOOSE passed \in
    { LET key == w.deferred[self][Len(w.deferred[self])]
          popped == [w EXCEPT !.deferred[self] = SubSeq(@, 1, Len(@) - 1)]
      IN  Link_deliver(L, popped, self, key, 1) : w \in {W} } : TRUE

\* the links of key from the i-th on.  An entry naming self is taken for a
\* list of observers, and calling its key (a str) raises TypeError.
Link_deliver(L, W, self, key, i) ==
  CHOOSE delivered \in
    { IF w.raised # "" \/ i > Len(L[self][key]) THEN w
      ELSE LET l == L[self][key][i]
               value == w.maps[self][key]
               next == IF l.that = self THEN [w EXCEPT !.raised = "TypeError"]
                       ELSE IF l.fn # "none"
                       THEN EventedDict_update(L, w, l.that, <<<<l.to, call(l.fn, value)>>>>)
                       ELSE IF w.maps[l.that][l.to] # value
                       THEN EventedDict_setitem(L, w, l.that, l.to, value)
                       ELSE w
           IN  Link_deliver(L, next, self, key, i + 1) : w \in {W} } : TRUE

Link_loop(L, W, self) ==
  CHOOSE looped \in
    { IF w.raised # "" \/ w.deferred[self] = <<>> THEN w
      ELSE Link_loop(L, Link_iterate(L, w, self), self) : w \in {W} } : TRUE

\* Link.__exit__ without an exception: _propagate() runs the loop when
\* something is deferred and no `with self` is open
Link_exit(L, W, self) ==
  CHOOSE exited \in
    { IF left.deferred[self] = <<>> \/ left.depth[self] > 0 THEN left
      ELSE [Link_loop(L, [left EXCEPT !.depth[self] = @ + 1], self)
              EXCEPT !.depth[self] = @ - 1] :
      left \in {[W EXCEPT !.depth[self] = @ - 1]} } : TRUE

\* _EventedDict.__setitem__ and update, called from a propagation
EventedDict_setitem(L, W, self, key, object) ==
  Link_exit(L, EventedDict_setitem_body(W, self, key, object), self)

EventedDict_update(L, W, self, args) ==
  Link_exit(L, EventedDict_update_body(W, self, args), self)

(***************************************************************************)
(* validation.py (validate.py holds the same functions as methods of       *)
(* ValidateMeta).  The object is a mapping whose class declares            *)
(* __annotations__: for each key the python type int or str, or nothing,   *)
(* and perhaps one for the key ''.                                         *)
(***************************************************************************)
\* a bound method of the mapping, what getattr(object, 'get') gives
Method == [kind |-> "method", n |-> 0, s |-> ""]

\* validate_type: isinstance(object, schema); bool is a subclass of int
validation_validate_type(object, schema) ==
  IF schema = "int" THEN object.kind \in {"integer", "boolean"}
  ELSE object.kind = "string"

\* validate_schema: jsonschema.validate
validation_validate_schema(object, schema) == Validate(ObjV(object), schema)

\* validate_schema_object: the loop over the properties, then the whole
\* object against the schema the loop left
validation_validate_schema_object(object, annotations, schema) ==
  LET properties == {k \in Keys : schema.properties.m[k] # NoSchema}
      target(k) == IF annotations.named[k] # "" THEN annotations.named[k]
                   ELSE annotations.blank
      reached == {k \in properties :
                    /\ target(k) # ""
                    /\ object[k] # Absent \/ k \in DictAttributes}
      thing(k) == IF object[k] # Absent THEN object[k] ELSE Method
      emptied == [schema EXCEPT !.properties.m =
                    [k \in Keys |-> IF @[k] # NoSchema THEN EmptyDoc ELSE NoSchema]]
  IN  IF \E k \in reached : ~validation_validate_type(thing(k), target(k))
      THEN "ValidationError"
      ELSE IF validation_validate_schema(object, IF reached # {} THEN emptied ELSE schema)
      THEN "ok" ELSE "ValidationError"

\* validate, for a mapping and a dict schema
validation_validate(object, annotations, schema) ==
  IF \E k \in Keys : schema.properties.m[k] # NoSchema
  THEN validation_validate_schema_object(object, annotations, schema)
  ELSE IF validation_validate_schema(object, schema) THEN "ok" ELSE "ValidationError"

(***************************************************************************)
(* State.                                                                  *)
(*   ltype, lst    a List instance: its type and its elements              *)
(*   lprev, lop, lres   the elements before the last call, the call, and   *)
(*                 how it ended                                            *)
(*   dtype, dmap   a Dict or DataClass instance: its type and its members  *)
(*   dprev, dop, dres   the same record of the last call on it             *)
(*   ctype, cval   the last construction T(v): the type and the value      *)
(*   cres, cprobe  how T(v) ended, and what isinstance(v, T) answered      *)
(*   tcur          the type the last successful definition produced        *)
(*   tlast         the last definition: its kind, the schema of its left   *)
(*                 operand, whether both operands were the same type, and  *)
(*                 whether it produced a type                              *)
(*   tmem          the operands of the last definition as they were, the   *)
(*                 document of the left one as it is now, the comparison   *)
(*                 made, the annotations and class attributes declared     *)
(*   tcount        the number of definitions made so far                   *)
(*   vobject, vann, vschema, vres   a mapping, the __annotations__ of its   *)
(*                 class, the schema it is validated against, the outcome  *)
(***************************************************************************)
VARIABLES ltype, lst, lprev, lop, lres, dtype, dmap, dprev, dop, dres,
          ctype, cval, cres, cprobe, tcur, tlast, tmem, tcount,
          ntype, nargs, nres, fmodules, ftype, fcall, fres,
          econfig, eworld, ecall, estatus, vobject, vann, vschema, vres

listVars == <<ltype, lst, lprev, lop, lres>>
dictVars == <<dtype, dmap, dprev, dop, dres>>
ctorVars == <<ctype, cval, cres, cprobe>>
typeVars == <<tcur, tlast, tmem, tcount>>
newVars == <<ntype, nargs, nres>>
fwdVars == <<fmodules, ftype, fcall, fres>>
evtVars == <<econfig, eworld, ecall, estatus>>
valVars == <<vobject, vann, vschema, vres>>
vars == <<listVars, dictVars, ctorVars, typeVars, newVars, fwdVars, evtVars, valVars>>

NoOp == [op |-> "new", id |-> 0, arg |-> <<>>]
NoCall == [op |-> "new", key |-> "", arg |-> NoProps]

ListIdle == ltype = NoType /\ lst = <<>> /\ lprev = <<>> /\ lop = NoOp /\ lres = "ok"
DictIdle ==
  dtype = NoType /\ dmap = NoProps /\ dprev = NoProps /\ dop = NoCall /\ dres = "ok"
CtorIdle == ctype = NoType /\ cval = NullV /\ cres = "new" /\ cprobe = FALSE
NoDef == [op |-> "new", a |-> NoSchema, same |-> FALSE, made |-> FALSE]
NoCmp == [op |-> "", n |-> 0, reversed |-> FALSE]
NoDecl == [ann |-> <<>>, attrs |-> {}]
NoMem == [a |-> NoType, b |-> NoType, a2 |-> NoSchema, cmp |-> NoCmp, decl |-> NoDecl]
TypeIdle == tcur = NoType /\ tlast = NoDef /\ tmem = NoMem /\ tcount = 0
NoInstance == [res |-> "new", value |-> Absent, tag |-> NoType]
NewIdle == ntype = NoType /\ nargs = <<>> /\ nres = NoInstance
NoEval == [op |-> "new", object |-> PyObject("", FALSE), modules |-> {}]
FwdIdle == fmodules = {} /\ ftype = NoType /\ fcall = NoEval /\ fres = Failed("")
NoWorld ==
  [maps |-> [o \in EObjects |-> [k \in EKeys |-> 0]],
   deferred |-> [o \in EObjects |-> <<>>],
   depth |-> [o \in EObjects |-> 0],
   raised |-> ""]
NoWrite == [op |-> "new", self |-> "e", args |-> <<>>, before |-> NoWorld.maps["e"]]
EvtIdle == econfig = <<>> /\ eworld = NoWorld /\ ecall = NoWrite /\ estatus = "new"
NoAnnotations == [named |-> [k \in Keys |-> ""], blank |-> ""]
ValIdle == vobject = NoProps /\ vann = NoAnnotations /\ vschema = EmptyDoc /\ vres = "new"

\* values offered as list elements and member values
Scalars == {IntV(1), IntV(2), StrV("x")}

\* List + Items[Integer, String]
ListPositional ==
  SchemaMeta_add(List,
    ContainerType_getitem(Items,
      [form |-> "list", schemas |-> SchemasOf(<<Integer, String>>)]))

\* the List types instances are asked of
ListTypes ==
  { List, ListPositional,
    ListSchema_getitem(List, <<Integer>>, FALSE),
    ListSchema_lt(ListSchema_getitem(List, <<Integer>>, FALSE), 2),
    ListSchema_gt(List, 2),
    Unique,
    ListSchema_getitem(Tuple, <<Integer, String>>, TRUE) }

RECURSIVE SeqsUpTo(_, _)
SeqsUpTo(S, n) ==
  IF n = 0 THEN {<<>>}
  ELSE SeqsUpTo(S, n - 1) \cup {Append(l, x) : l \in SeqsUpTo(S, n - 1), x \in S}

\* T(value): an instance exists only if the value validates, and it is an
\* instance of the type the constructor returns
ListInit ==
  /\ \E T \in ListTypes, l \in SeqsUpTo(Scalars, 2) :
        /\ new(T, <<ListV(l)>>).res = "ok"
        /\ ltype = new(T, <<ListV(l)>>).tag
        /\ lst = l
  /\ lprev = lst
  /\ lop = NoOp
  /\ lres = "ok"
  /\ DictIdle /\ CtorIdle /\ TypeIdle /\ NewIdle /\ FwdIdle /\ EvtIdle /\ ValIdle

Ids == -MaxLen..MaxLen

Finish(r, op) ==
  /\ lst' = r.list
  /\ lres' = r.res
  /\ lprev' = lst
  /\ lop' = op
  /\ UNCHANGED <<ltype, dictVars, ctorVars, typeVars, newVars, fwdVars, evtVars, valVars>>

SetItem ==
  \E id \in Ids, x \in Scalars :
     /\ Len(lst) <= MaxLen
     /\ Finish(List_setitem(ltype.schema, lst, id, x),
            [op |-> "setitem", id |-> id, arg |-> <<x>>])

AppendItem ==
  \E x \in Scalars :
     /\ Len(lst) < MaxLen
     /\ Finish(List_append(ltype.schema, lst, x),
               [op |-> "append", id |-> 0, arg |-> <<x>>])

InsertItem ==
  \E id \in Ids, x \in Scalars :
     /\ Len(lst) < MaxLen
     /\ Finish(List_insert(ltype.schema, lst, id, x),
               [op |-> "insert", id |-> id, arg |-> <<x>>])

ExtendItems ==
  \E xs \in SeqsUpTo(Scalars, 2) :
     /\ Len(lst) + Len(xs) <= MaxLen
     /\ Finish(List_extend(ltype.schema, lst, xs),
               [op |-> "extend", id |-> 0, arg |-> xs])

PopItem ==
  \E id \in Ids :
     /\ Len(lst) <= MaxLen
     /\ Finish(List_pop(ltype.schema, lst, id), [op |-> "pop", id |-> id, arg |-> <<>>])

NextList == SetItem \/ AppendItem \/ InsertItem \/ ExtendItems \/ PopItem

SpecList == ListInit /\ [][NextList]_vars

(***************************************************************************)
(* A Dict or DataClass instance under keyed writes and bulk updates.       *)
(***************************************************************************)
\* values offered as member values: scalars and the mapping {"a": 1}
Members == Scalars \cup {ObjV(One("a", IntV(1)))}

\* the mappings offered as instances and as update arguments
Maps == {m \in [Keys -> Members \cup {Absent}] : m["get"] = Absent}

DictTypes ==
  { ObjectSchema_getitem(Dict, <<<<"a", Integer.schema>>>>),
    SchemaMeta_add(Dict, ConstType_getitem(maxProperties, IntV(1))),
    SchemaMeta_add(ObjectSchema_getitem(Dict, <<<<"a", Integer.schema>>>>),
                   ContainerType_getitem(AdditionalProperties, FalseSchema)),
    ObjectSchema_getitem_types(Dict, <<String>>),
    SchemaMeta_add(Dict, ConstType_getitem(Dependencies, {<<"a", "b">>})),
    ClassDecl(Dict, "d", <<<<"a", Integer.schema>>>>, {}) }

DataTypes ==
  { ClassDecl(DataClass, "q", <<<<"a", Integer.schema>>>>, {}),
    ClassDecl(DataClass, "r", <<<<"a", Dict.schema>>>>, {}) }

\* Dict(value) validates the value; a DataClass instance has had each of
\* its fields written through __setattr__
DictInit ==
  /\ dtype \in DictTypes \cup DataTypes
  /\ dmap \in {m \in Maps : validate_object(ObjV(m), dtype.schema)}
  /\ dprev = dmap
  /\ dop = NoCall
  /\ dres = "ok"
  /\ ListIdle /\ CtorIdle /\ TypeIdle /\ NewIdle /\ FwdIdle /\ EvtIdle /\ ValIdle

Done(r, op) ==
  /\ dmap' = r.map
  /\ dres' = r.res
  /\ dprev' = dmap
  /\ dop' = op
  /\ UNCHANGED <<dtype, listVars, ctorVars, typeVars, newVars, fwdVars, evtVars, valVars>>

SetKey ==
  \E k \in Keys, x \in Members :
     /\ dtype.base = "dict"
     /\ Done(Dict_setitem(dtype.schema, dmap, k, x),
             [op |-> "setitem", key |-> k, arg |-> One(k, x)])

Update ==
  \E args \in Maps :
     /\ dtype.base = "dict"
     /\ Done(Dict_update(dtype.schema, dmap, args),
             [op |-> "update", key |-> "", arg |-> args])

SetAttr ==
  \E k \in Keys, x \in Members :
     /\ dtype.base = "dataclass"
     /\ Done(DataClass_setattr(dtype.schema, dmap, k, x),
             [op |-> "setattr", key |-> k, arg |-> One(k, x)])

NextDict == SetKey \/ Update \/ SetAttr

SpecDict == DictInit /\ [][NextDict]_vars

(***************************************************************************)
(* Claims about the guarded List operations (SpecList).                    *)
(***************************************************************************)
\* C1: after every guarded List operation (indexed set, insert, append,
\* extend, pop) the list is valid against the full schema of its type.
C1_ListValidAfterEveryOperation == validate_object(ListV(lst), ltype.schema)

\* the last call was pop(index) on a list whose remainder, once the element
\* at index is removed, fails validation against the list's schema
PopLeavesInvalid ==
  /\ lop.op = "pop"
  /\ InRange(Len(lprev), lop.id)
  /\ ~validate_object(ListV(list_remove(lprev, lop.id)), ltype.schema)

C4_FailedPopRaisesValidationError == PopLeavesInvalid => lres = "ValidationError"

\* the list's type has one homogeneous item schema, as List[Integer]
Homogeneous == ltype # NoType /\ ltype.schema.items.form = "dict"

\* C5: on a List with one homogeneous item schema, append of a value that
\* satisfies the item schema succeeds and grows the list by that value;
\* append of a value that violates it raises ValidationError and leaves
\* the list unchanged.
C5_AppendCheckedAgainstItems ==
  (Homogeneous /\ lop.op = "append") =>
     IF validate_object(lop.arg[1], ltype.schema.items.schemas[1])
     THEN lres = "ok" /\ lst = Append(lprev, lop.arg[1])
     ELSE lres = "ValidationError" /\ lst = lprev

\* C5 witness: append of "x" onto a one-element List[Integer] was refused
C5_Witness ==
  /\ Homogeneous
  /\ lop = [op |-> "append", id |-> 0, arg |-> <<StrV("x")>>]
  /\ lres = "ValidationError"
  /\ lst = <<IntV(1)>>

Positional == ltype # NoType /\ ltype.schema.items.form = "list"

\* the outcome of writing object at 1-based position p of a positional List:
\* checked against the schema of position p when items has one
CheckedAtPosition(object, p) ==
  LET schemas == ltype.schema.items.schemas
  IN  IF p <= Len(schemas) /\ ~validate_object(object, schemas[p])
      THEN "ValidationError" ELSE "ok"

\* C24: on a List with positional items, l[i] = x (i negative included) and
\* l.append(x) check x against the schema of the position x will occupy,
\* and commit exactly when the check passes.
C24_PositionalSchemaOfTargetPosition ==
  /\ (Positional /\ lop.op = "setitem" /\ InRange(Len(lprev), lop.id)) =>
       LET p == Pos(Len(lprev), lop.id)
       IN  /\ lres = CheckedAtPosition(lop.arg[1], p)
           /\ lst = IF lres = "ok" THEN [lprev EXCEPT ![p] = lop.arg[1]] ELSE lprev
  /\ (Positional /\ lop.op = "append") =>
       /\ lres = CheckedAtPosition(lop.arg[1], Len(lprev) + 1)
       /\ lst = IF lres = "ok" THEN Append(lprev, lop.arg[1]) ELSE lprev

\* the item schema that applies at 1-based position p, NoSchema when none
ItemSchemaAt(schema, p) ==
  LET items == schema.items
  IN  IF items.form = "dict" THEN items.schemas[1]
      ELSE IF items.form = "list" /\ p <= Len(items.schemas) THEN items.schemas[p]
      ELSE NoSchema

\* some element of the batch violates the item schema of the position it
\* would take after self
BatchFails(schema, self, batch) ==
  \E j \in 1..Len(batch) :
     /\ ItemSchemaAt(schema, Len(self) + j) # NoSchema
     /\ ~validate_object(batch[j], ItemSchemaAt(schema, Len(self) + j))

\* C25: extend checks every element of the batch against the item schema
\* that applies to it and commits all of them or none.
C25_ExtendValidatesWholeBatch ==
  lop.op = "extend" =>
    IF BatchFails(ltype.schema, lprev, lop.arg)
    THEN lres = "ValidationError" /\ lst = lprev
    ELSE lres = "ok" /\ lst = lprev \o lop.arg

\* C30: a pop whose remaining list revalidates removes l[index], keeps the
\* other elements in order and ends normally.
C30_PopRemovesElementAtIndex ==
  (/\ lop.op = "pop" /\ InRange(Len(lprev), lop.id)
   /\ validate_object(ListV(list_remove(lprev, lop.id)), ltype.schema))
    => lres = "ok" /\ lst = list_remove(lprev, lop.id)

(***************************************************************************)
(* Claims about the guarded record operations (SpecDict).                  *)
(***************************************************************************)
\* C2: after every keyed set and bulk update a Dict instance is valid
\* against the full schema of its type.
C2_DictValidAfterEveryOperation ==
  (dtype # NoType /\ dtype.base = "dict") => validate_object(ObjV(dmap), dtype.schema)

\* C6: a keyed set (Dict item write, DataClass attribute write) validates
\* the new value against the property's own sub-schema when the key is a
\* declared property, and otherwise {key: value} against the schema with
\* required emptied; it writes the value exactly when that validation
\* succeeds and leaves the record unchanged when it fails.
C6_KeyedSetChecked ==
  dop.op \in {"setitem", "setattr"} =>
     LET k == dop.key
         x == dop.arg[k]
         declared == dtype.schema.properties.m[k] # NoSchema
         passes == IF declared
                   THEN validate_object(x, dtype.schema.properties.m[k])
                   ELSE validate_object(ObjV(One(k, x)), Relaxed(dtype.schema))
     IN  IF passes
         THEN dres = "ok" /\ dmap = [dprev EXCEPT ![k] = x]
         ELSE dres = "ValidationError" /\ dmap = dprev

\* C7: Dict.update validates the whole incoming mapping against the schema
\* with required emptied; on failure no key changes, on success every
\* incoming key is written.
C7_UpdateAllOrNothing ==
  dop.op = "update" =>
     IF validate_object(ObjV(dop.arg), Relaxed(dtype.schema))
     THEN dres = "ok" /\ \A k \in Keys :
             dmap[k] = IF dop.arg[k] # Absent THEN dop.arg[k] ELSE dprev[k]
     ELSE dres = "ValidationError" /\ dmap = dprev

\* C7 witness: an update of two keys, one of which would pass alone, was
\* refused and changed nothing
C7_Witness ==
  /\ dop.op = "update"
  /\ KeysOf(dop.arg) = {"a", "b"}
  /\ \E k \in Keys : verify_key(dtype.schema, k, dop.arg[k]) /\ dop.arg[k] # dprev[k]
  /\ dres = "ValidationError"
  /\ dmap = dprev

(***************************************************************************)
(* Constructions and probes (SpecCtor).                                    *)
(***************************************************************************)
CtorTypes ==
  { Trait, Integer, Float, String, Bool, Null, List, Unique, Dict,
    ListSchema_getitem(List, <<Integer>>, FALSE),
    ListSchema_getitem(Tuple, <<Integer, String>>, TRUE),
    ObjectSchema_getitem(Dict, <<<<"a", Integer.schema>>>>),
    ContainerType_getitem(AnyOf, <<Integer.schema, String.schema>>),
    ContainerType_getitem(Not, String.schema),
    ConstType_getitem(Minimum, IntV(2)) }

CtorValues ==
  { IntV(1), IntV(2), HalfV(1), StrV("x"), BoolV(TRUE), NullV,
    ListV(<<>>), ListV(<<IntV(1)>>), ListV(<<IntV(1), StrV("x")>>),
    ListV(<<IntV(1), IntV(1)>>),
    TupleV(<<>>), TupleV(<<IntV(1)>>), TupleV(<<IntV(1), StrV("x")>>),
    ObjV(NoProps), ObjV(One("a", IntV(1))), ObjV(One("a", StrV("x"))),
    ListV(<<TupleV(<<StrV("a"), IntV(1)>>)>>) }

CtorInit == CtorIdle /\ ListIdle /\ DictIdle /\ TypeIdle /\ NewIdle /\ FwdIdle /\ EvtIdle /\ ValIdle

Construct ==
  \E T \in CtorTypes, v \in CtorValues :
     /\ ctype' = T
     /\ cval' = v
     /\ cres' = construct(T, v)
     /\ cprobe' = instancecheck(T, v)
     /\ UNCHANGED <<listVars, dictVars, typeVars, newVars, fwdVars, evtVars, valVars>>

NextCtor == Construct

SpecCtor == CtorInit /\ [][NextCtor]_vars

\* C8: constructing T(v) succeeds if and only if isinstance(v, T) is true.
C8_ConstructAgreesWithProbe == cres # "new" => (cres = "ok" <=> cprobe)

(***************************************************************************)
(* Construction with and without an argument (SpecNew).                    *)
(***************************************************************************)
WithDefault(cls, v) == SchemaMeta_add(cls, ConstType_getitem(Default, v))

\* Dict[{'a': Integer + Default[v]}]
DictWithPropertyDefault(v) ==
  ObjectSchema_getitem(Dict, <<<<"a", WithDefault(Integer, v).schema>>>>)

NewTypes ==
  CtorTypes \cup
  { Tuple, AllOf, Items, Properties, Default,
    ContainerType_getitem(Items, [form |-> "dict", schemas |-> <<Integer.schema>>]),
    ConstType_getitem(MinItems, IntV(1)),
    SchemaMeta_add(Integer, ConstType_getitem(Minimum, IntV(1))),
    SchemaMeta_add(List, ConstType_getitem(MinItems, IntV(1))),
    SchemaMeta_add(Null, Integer),
    WithDefault(Integer, IntV(2)),
    WithDefault(Integer, StrV("x")),
    WithDefault(Bool, BoolV(TRUE)),
    WithDefault(List, ListV(<<IntV(1)>>)),
    WithDefault(Dict, ObjV(One("b", StrV("x")))),
    DictWithPropertyDefault(IntV(1)),
    DictWithPropertyDefault(StrV("x")),
    WithDefault(DictWithPropertyDefault(IntV(1)), ObjV(One("a", IntV(2)))) }

NewInit == NewIdle /\ ListIdle /\ DictIdle /\ CtorIdle /\ TypeIdle /\ FwdIdle /\ EvtIdle /\ ValIdle

\* T(), T(v)
New ==
  \E T \in NewTypes, args \in {<<>>} \cup {<<v>> : v \in CtorValues} :
     /\ ntype' = T
     /\ nargs' = args
     /\ nres' = new(T, args)
     /\ UNCHANGED <<listVars, dictVars, ctorVars, typeVars, fwdVars, evtVars, valVars>>

NextNew == New

SpecNew == NewInit /\ [][NextNew]_vars

\* the types that stand for a kind of value and are not marked _NoInit
BaseKinds == {"int", "float", "str", "list", "tuple", "dict", "bool", "null"}
Instantiable == nres.res # "new" /\ ~ntype.marked /\ ntype.base \in BaseKinds

\* the default a document declares: its own, else the record of the
\* properties that declare one
DeclaresDefault(schema) == schema.default # Absent \/ schema.properties.present
DeclaredDefault(schema) ==
  IF schema.default # Absent THEN schema.default
  ELSE ObjV([k \in Keys |-> IF IsDocument(schema.properties.m[k])
                            THEN schema.properties.m[k].default ELSE Absent])

\* the argument is what the type returns: no dict(v) or list(v) copy of it,
\* and not the None every Null type returns
TakenAsIs(cls, v) ==
  /\ v.kind # "tuple"
  /\ cls.base # "null"
  /\ cls.base = "dict" => v.kind = "object"

NoDefaults(schema) ==
  /\ schema.default = Absent
  /\ \A k \in Keys : IsDocument(schema.properties.m[k])
                       => schema.properties.m[k].default = Absent

\* 0, "", [], {}, False, None
Zero(cls) == ZeroValue(cls.base)

\* C15: T() of a type without defaults returns the zero value of its kind
\* when the schema accepts it and raises ValidationError when it does not.
C15_ZeroValueValidated ==
  (Instantiable /\ nargs = <<>> /\ NoDefaults(ntype.schema)) =>
    IF Validate(Zero(ntype), ntype.schema)
    THEN nres.res = "ok" /\ nres.value = Zero(ntype)
    ELSE nres.res = "ValidationError"

\* C17: T() and T(v) raise TypeError and return nothing for every type with
\* _NoInit among its bases, wherever it stands among them.
C17_NoInitAlwaysRaises ==
  (nres.res # "new" /\ ntype.marked) => nres = Raised("TypeError")

\* C19: the instance a container type T returns is an instance of T, so
\* that its guarded operations check against T's schema.
C19_InstanceTaggedWithType ==
  (nres.res = "ok" /\ ~ntype.marked /\ ntype.base \in {"list", "tuple", "dict"})
    => nres.tag = ntype

(***************************************************************************)
(* Forward references and the loaded modules (SpecForward).                *)
(***************************************************************************)
ForwardNames == {"builtins.range", "builtins.nope", "pandas.DataFrame"}
ForwardKinds == {Forward, Class, Instance}
PyObjects == {PyObject("builtins.range", FALSE), PyObject("builtins.range", TRUE),
              PyObject("builtins.int", FALSE)}

\* builtins is always loaded
FwdInit ==
  /\ fmodules = {"builtins"} /\ ftype = NoType /\ fcall = NoEval /\ fres = Failed("")
  /\ ListIdle /\ DictIdle /\ CtorIdle /\ TypeIdle /\ NewIdle /\ EvtIdle /\ ValIdle

Evaluated(r, op, object) ==
  /\ fres' = r
  /\ fcall' = [op |-> op, object |-> object, modules |-> fmodules]
  /\ UNCHANGED <<fmodules, listVars, dictVars, ctorVars, typeVars, newVars, evtVars, valVars>>

\* Forward['m.N'], Class['m.N'], Instance['m.N', 'k.L']
DefineForward ==
  \E cls \in ForwardKinds, names \in {n \in SUBSET ForwardNames : Cardinality(n) \in 1..2} :
     /\ ftype' = ForwardSchema_getitem(cls, names)
     /\ Evaluated([res |-> "ok", value |-> names], "getitem", PyObject("", FALSE))

\* T.eval()
EvalForward ==
  /\ ftype # NoType
  /\ ftype' = ftype
  /\ Evaluated(ForwardSchema_eval(ftype, fmodules), "eval", PyObject("", FALSE))

\* isinstance(x, T)
ProbeForward ==
  /\ ftype # NoType
  /\ ftype' = ftype
  /\ \E x \in PyObjects :
        Evaluated([res |-> IF ForwardSchema_instancecheck(ftype, x, fmodules)
                           THEN "True" ELSE "False", value |-> {}], "isinstance", x)

\* some other code imports pandas
ImportModule ==
  /\ "pandas" \notin fmodules
  /\ fmodules' = fmodules \cup {"pandas"}
  /\ fcall' = [op |-> "import", object |-> PyObject("", FALSE), modules |-> fmodules]
  /\ fres' = [res |-> "ok", value |-> {}]
  /\ UNCHANGED <<ftype, listVars, dictVars, ctorVars, typeVars, newVars, evtVars, valVars>>

NextForward == DefineForward \/ EvalForward \/ ProbeForward \/ ImportModule

SpecForward == FwdInit /\ [][NextForward]_vars

\* a reference of T names nothing among the loaded modules
Unresolved(cls, modules) ==
  \E n \in cls.schema.union : ModuleOf(n) \notin modules \/ ~HasAttribute(n)

\* C21: defining a forward type never fails; evaluating one that holds an
\* unresolvable name raises NameError or AttributeError; isinstance on it is
\* False for every object; neither eval nor isinstance loads a module.
C21_UnresolvedFailsAtEvaluation ==
  /\ fcall.op = "getitem" => fres.res = "ok"
  /\ (fcall.op = "eval" /\ Unresolved(ftype, fcall.modules))
       => fres.res \in {"NameError", "AttributeError"}
  /\ (fcall.op = "isinstance" /\ Unresolved(ftype, fcall.modules)) => fres.res = "False"
  /\ fcall.op \in {"eval", "isinstance"} => fmodules = fcall.modules

(***************************************************************************)
(* Links between two evented mappings (SpecEvented).  The links are       *)
(* registered on the empty mappings; then keys are set and updated.  A     *)
(* write whose __exit__ starts a propagation is followed pass by pass      *)
(* through the loop of Link._propagate.                                    *)
(***************************************************************************)
Registration(kind, this, source, that, target, callable) ==
  [kind |-> kind, this |-> this, source |-> source, that |-> that,
   target |-> target, fn |-> callable]

\* e.link('a', that, target) and e.dlink('a', that, target[, callable])
FirstRegistrations ==
  {Registration("link", "e", "a", that, target, "none") :
      that \in EObjects, target \in EKeys}
  \cup {Registration("dlink", "e", "a", that, target, callable) :
      that \in EObjects, target \in EKeys, callable \in Callables \cup {"none"}}

SecondRegistrations ==
  { Registration("link", "e", "b", "f", "b", "none"),
    Registration("dlink", "f", "b", "e", "a", "same"),
    Registration("dlink", "f", "b", "e", "a", "other"),
    Registration("dlink", "f", "a", "e", "a", "same") }

EConfigs ==
  {<<r>> : r \in FirstRegistrations}
  \cup {<<r, q>> : r \in {x \in FirstRegistrations : x.that = "f"},
                   q \in SecondRegistrations}

Register(R, r) ==
  LET clean == [R EXCEPT !.raised = ""]
  IN  IF r.kind = "link" THEN Link_link(clean, r.this, r.source, r.that, r.target)
      ELSE Link_dlink(clean, r.this, r.source, r.that, r.target, r.fn)

\* the _registered_links of both objects after the registrations of config;
\* a registration that raises leaves what it had registered before raising
RECURSIVE Registered(_)
Registered(config) ==
  IF config = <<>> THEN [links |-> NoLinks, raised |-> ""]
  ELSE Register(Registered(SubSeq(config, 1, Len(config) - 1)), config[Len(config)])

EvtInit ==
  /\ econfig \in EConfigs
  /\ eworld = NoWorld /\ ecall = NoWrite /\ estatus = "new"
  /\ ListIdle /\ DictIdle /\ CtorIdle /\ TypeIdle /\ NewIdle /\ FwdIdle /\ ValIdle

\* the dicts an update is called with, as sequences of pairs
UpdateArgs ==
  {<<<<k, v>>>> : k \in EKeys, v \in EValues}
  \cup {<<<<p[1], v>>, <<p[2], w>>>> :
          p \in {q \in EKeys \X EKeys : q[1] # q[2]}, v \in EValues, w \in EValues}

\* the __exit__ of the `with self:` of a write that no propagation called:
\* _propagate() enters `with self:` again when something is deferred
Begin(W, write) ==
  LET self == write.self
      left == [W EXCEPT !.depth[self] = @ - 1]
  IN  /\ ecall' = write
      /\ eworld' = IF left.deferred[self] = <<>> THEN left
                   ELSE [left EXCEPT !.depth[self] = @ + 1]
      /\ estatus' = IF left.deferred[self] = <<>> THEN "returned" ELSE "running"
      /\ UNCHANGED <<econfig, listVars, dictVars, ctorVars, typeVars, newVars, fwdVars, valVars>>

\* x[key] = object
SetEvented ==
  /\ estatus # "running"
  /\ \E self \in EObjects, key \in EKeys, object \in EValues :
        Begin(EventedDict_setitem_body(eworld, self, key, object),
              [op |-> "setitem", self |-> self, args |-> <<<<key, object>>>>,
               before |-> eworld.maps["e"]])

\* x.update({...})
UpdateEvented ==
  /\ estatus # "running"
  /\ \E self \in EObjects, args \in UpdateArgs :
        Begin(EventedDict_update_body(eworld, self, args),
              [op |-> "update", self |-> self, args |-> args, before |-> eworld.maps["e"]])

\* one pass of the loop of the running _propagate, the writes it makes on
\* the other object included; the write returns when nothing is deferred,
\* and raises what a pass raised
Propagate ==
  /\ estatus = "running"
  /\ \E self \in {ecall.self} :
        IF eworld.deferred[self] = <<>>
        THEN /\ eworld' = [eworld EXCEPT !.depth[self] = @ - 1]
             /\ estatus' = "returned"
        ELSE \E L \in {Registered(econfig).links} :
             \E passed \in {Link_iterate(L, eworld, self)} :
                IF passed.raised # ""
                THEN /\ eworld' = [passed EXCEPT !.depth[self] = @ - 1, !.raised = ""]
                     /\ estatus' = passed.raised
                ELSE /\ eworld' = passed
                     /\ estatus' = "running"
  /\ UNCHANGED <<econfig, ecall, listVars, dictVars, ctorVars, typeVars, newVars, fwdVars, valVars>>

NextEvented == SetEvented \/ UpdateEvented \/ Propagate

\* a started propagation goes on: the interpreter does not stop by itself
SpecEvented == EvtInit /\ [][NextEvented]_vars /\ WF_vars(Propagate)

\* the last write gave value to key of object
Wrote(object, key, value) ==
  /\ estatus = "returned" /\ ecall.op \in {"setitem", "update"}
  /\ ecall.self = object
  /\ \E i \in 1..Len(ecall.args) : ecall.args[i] = <<key, value>>

\* C22: with e.link('a', f, 'b') alone, a returned write of v to e['a'] or
\* to f['b'] leaves e['a'] = f['b'] = v.
C22_TwoWayLinkKeepsEqual ==
  econfig = <<Registration("link", "e", "a", "f", "b", "none")>> =>
    \A v \in EValues :
       (Wrote("e", "a", v) \/ Wrote("f", "b", v))
         => eworld.maps["e"]["a"] = v /\ eworld.maps["f"]["b"] = v

\* C23: with e.dlink('a', f, 'b', fn) alone, a returned e['a'] = v leaves
\* f['b'] = fn(v), and a write on f leaves e as it was.
C23_DirectionalLinkTransforms ==
  \A fn \in Callables :
     econfig = <<Registration("dlink", "e", "a", "f", "b", fn)>> =>
       /\ \A v \in EValues :
             (Wrote("e", "a", v) /\ ecall.op = "setitem")
               => eworld.maps["f"]["b"] = call(fn, v)
       /\ (estatus = "returned" /\ ecall.self = "f")
            => eworld.maps["e"] = ecall.before

\* C26: with e.link('a', f, 'a') and e.link('b', f, 'b'), a returned
\* e.update(...) leaves in f the new value of every key it changed.
C26_UpdatePropagatesEveryKey ==
  econfig = <<Registration("link", "e", "a", "f", "a", "none"),
              Registration("link", "e", "b", "f", "b", "none")>> =>
    \A k \in EKeys, v \in EValues :
       (Wrote("e", k, v) /\ ecall.op = "update" /\ ecall.before[k] # v)
         => eworld.maps["f"][k] = v

\* no key is linked to itself on its own object
NoSelfLink ==
  \A o \in EObjects, k \in EKeys :
     \A i \in 1..Len(Registered(econfig).links[o][k]) :
        ~(Registered(econfig).links[o][k][i].that = o
          /\ Registered(econfig).links[o][k][i].to = k)

\* C28: a key is never linked to itself, and every write that starts a
\* propagation returns or raises after finitely many passes.
C28_PropagationTerminates ==
  /\ []NoSelfLink
  /\ (estatus = "running") ~> (estatus # "running")

(***************************************************************************)
(* Validation of a mapping against a schema with properties                *)
(* (SpecValidate).                                                         *)
(***************************************************************************)
MemberValues == {Absent, IntV(1), StrV("x")}
MemberSchemas == {NoSchema, TypeDoc("integer"), TypeDoc("string")}
Targets == {"", "int", "str"}

ValInit ==
  /\ vobject \in [Keys -> MemberValues]
  /\ vann \in [named : [Keys -> Targets], blank : {"", "int"}]
  /\ \E m \in [Keys -> MemberSchemas] :
        vschema = [EmptyDoc EXCEPT !.properties = [present |-> TRUE, m |-> m]]
  /\ vres = "new"
  /\ ListIdle /\ DictIdle /\ CtorIdle /\ TypeIdle /\ NewIdle /\ FwdIdle /\ EvtIdle

\* validate(object, schema)
ValidateObject ==
  /\ vres = "new"
  /\ vres' = validation_validate(vobject, vann, vschema)
  /\ UNCHANGED <<vobject, vann, vschema, listVars, dictVars, ctorVars, typeVars,
                 newVars, fwdVars, evtVars>>

NextValidate == ValidateObject

SpecValidate == ValInit /\ [][NextValidate]_vars

\* C27: validation against a schema with properties succeeds exactly when
\* every member the value holds satisfies the sub-schema of its name; the
\* members it does not hold are skipped, whatever the class annotates.
C27_PropertiesCheckEveryPresentMember ==
  (vres # "new" /\ \E k \in Keys : vschema.properties.m[k] # NoSchema) =>
     (vres = "ok" <=>
        \A k \in KeysOf(vobject) :
           vschema.properties.m[k] # NoSchema
             => Validate(vobject[k], vschema.properties.m[k]))

(***************************************************************************)
(* Type definitions and compositions (SpecTypes).                          *)
(***************************************************************************)
\* class e(Dict): b: str
DictE == ClassDecl(Dict, "e", <<<<"b", String.schema>>>>, {})

TypeBases == {Integer, List, Dict, DictE}

\* the types a definition can name: the declared ones and the last made
Operands == TypeBases \cup (IF tcur = NoType THEN {} ELSE {tcur})
Documented == {t \in Operands : t.meta # "_ForwardSchema"}
Forwards == {Forward} \cup {t \in Operands : t.meta = "_ForwardSchema"}

Overrides ==
  { [EmptyDoc EXCEPT !.minimum = IntV(1)],
    [EmptyDoc EXCEPT !.minItems = IntV(-1)],
    [EmptyDoc EXCEPT !.title = "t"],
    [EmptyDoc EXCEPT !.type = "foo"] }

TypeInit == TypeIdle /\ ListIdle /\ DictIdle /\ CtorIdle /\ NewIdle /\ FwdIdle /\ EvtIdle /\ ValIdle

\* a definition that raises leaves the types there are
Defined(r, op, a, b, a2, cmp, decl) ==
  /\ tcount' = tcount + 1
  /\ tlast' = [op |-> op, a |-> a.schema, same |-> (op = "add" /\ a = b),
               made |-> r # NoType]
  /\ tmem' = [a |-> a, b |-> b, a2 |-> a2, cmp |-> cmp, decl |-> decl]
  /\ tcur' = IF r # NoType THEN r ELSE tcur
  /\ UNCHANGED <<listVars, dictVars, ctorVars, newVars, fwdVars, evtVars, valVars>>

\* cls.create("t", **schema)
Create ==
  /\ tcount < MaxTypes
  /\ \E cls \in Documented, schema \in Overrides :
        Defined(create(cls, "t", schema), "create", cls, NoType, cls.schema, NoCmp, NoDecl)

\* a + b, dispatched on the metaclass of a
Add ==
  /\ tcount < MaxTypes
  /\ \E a \in Operands, b \in Operands :
        Defined(IF a.meta = "_ForwardSchema"
                THEN ForwardSchema_add(a, b) ELSE SchemaMeta_add(a, b),
                "add", a, b, a.schema, NoCmp, NoDecl)

\* Minimum[n], MinItems[n], MultipleOf[n]
ConstGetitem ==
  /\ tcount < MaxTypes
  /\ \E cls \in {Minimum, MinItems, MultipleOf}, object \in {IntV(-1), IntV(0), IntV(2)} :
        Defined(ConstType_getitem(cls, object), "getitem", cls, NoType, cls.schema, NoCmp, NoDecl)

\* Items[t], Not[t], AnyOf[t]
ContainerGetitem ==
  /\ tcount < MaxTypes
  /\ \E cls \in {Items, Not, AnyOf}, t \in Documented :
        Defined(ContainerType_getitem(cls,
                  CASE cls = Items -> [form |-> "dict", schemas |-> <<t.schema>>]
                    [] cls = AnyOf -> <<t.schema>>
                    [] OTHER -> t.schema),
                "getitem", cls, t, cls.schema, NoCmp, NoDecl)

\* the fields a class statement declares
Annotations ==
  { <<<<"a", Integer.schema>>>>,
    <<<<"get", Integer.schema>>, <<"a", Integer.schema>>>> }

\* class d(cls): a: int  or  class d(cls): get: int; a: int, the field a
\* with or without a default value
Declare ==
  /\ tcount < MaxTypes
  /\ \E cls \in {t \in Documented : t.base = "dict"}, ann \in Annotations,
        attrs \in SUBSET {"a"} :
        Defined(ClassDecl(cls, "d", ann, attrs), "class",
                cls, NoType, ClassDecl_base(cls, ann, attrs), NoCmp,
                [ann |-> ann, attrs |-> attrs])

\* Forward['builtins.range'], Forward['builtins.range', 'pandas.DataFrame']
ForwardGetitem ==
  /\ tcount < MaxTypes
  /\ \E cls \in Forwards, object \in {{"builtins.range"}, {"builtins.range", "pandas.DataFrame"}} :
        Defined(ForwardSchema_getitem(cls, object), "forward", cls, NoType, cls.schema, NoCmp, NoDecl)

\* T < n, T <= n, T > n, T >= n and n < T, n <= T, n > T, n >= T
Compare ==
  /\ tcount < MaxTypes
  /\ \E cls \in {t \in Documented : t.meta = "_NumericSchema"},
        op \in {"lt", "le", "gt", "ge"}, n \in {10, 100}, reversed \in BOOLEAN :
        Defined(NumericSchema_compare(cls, op, IntV(n), reversed), "compare",
                cls, NoType, cls.schema, [op |-> op, n |-> n, reversed |-> reversed], NoDecl)

NextTypes ==
  \/ Create
  \/ Add
  \/ ConstGetitem
  \/ ContainerGetitem
  \/ Declare
  \/ ForwardGetitem
  \/ Compare

SpecTypes == TypeInit /\ [][NextTypes]_vars

\* C9: every type a definition has produced carries a schema document
\* that is valid against the meta-schema.
C9_EveryTypeMetaValid ==
  tcur # NoType => (IsDocument(tcur.schema) /\ validate_type(tcur.schema))

\* C10: when A + A produces a type, its schema document is that of A.
C10_AddSelfKeepsSchema ==
  (tlast.op = "add" /\ tlast.same /\ tlast.made) => tcur.schema = tlast.a

\* C10 witness: A = Integer.create("t", minimum=1) was added to itself and
\* the sum carries A's document
C10_Witness ==
  /\ tlast.op = "add" /\ tlast.same /\ tlast.made
  /\ IsDocument(tlast.a)
  /\ tlast.a.type = "integer" /\ tlast.a.minimum = IntV(1)
  /\ tcur.schema = tlast.a

\* the last definition was a + b and produced a type
Added == tlast.op = "add" /\ tlast.made

\* C11: when A and B both carry properties, A + B carries every property
\* key of A and of B; a key of one operand alone keeps its sub-schema, a key
\* of both has the two sub-schemas merged with B winning.
C11_AddMergesProperties ==
  (Added /\ tmem.a.schema.properties.present /\ tmem.b.schema.properties.present) =>
     \A k \in Keys :
        LET pa == tmem.a.schema.properties.m[k]
            pb == tmem.b.schema.properties.m[k]
            pr == tcur.schema.properties.m[k]
        IN  /\ (pa # NoSchema /\ pb = NoSchema) => pr = pa
            /\ (pa = NoSchema /\ pb # NoSchema) => pr = pb
            /\ (pa # NoSchema /\ pb # NoSchema) =>
                  pr = IF IsDocument(pa) /\ IsDocument(pb) THEN DictUpdate(pa, pb) ELSE pb

\* the keys of a list in order, each kept at its first place
RECURSIVE Dedup(_)
Dedup(xs) ==
  IF xs = <<>> THEN <<>>
  ELSE LET front == Dedup(SubSeq(xs, 1, Len(xs) - 1))
       IN  IF xs[Len(xs)] \in SeqToSet(front) THEN front ELSE Append(front, xs[Len(xs)])

\* C12: the required list of A + B is A's required keys followed by B's,
\* without duplicates.
C12_AddConcatenatesRequired ==
  Added => tcur.schema.required.keys
             = Dedup(tmem.a.schema.required.keys \o tmem.b.schema.required.keys)

\* the constraint key the claim gives each comparison
MirroredKey(cmp) ==
  CASE cmp.op = "lt" -> IF cmp.reversed THEN "exclusiveMinimum" ELSE "exclusiveMaximum"
    [] cmp.op = "le" -> IF cmp.reversed THEN "minimum" ELSE "maximum"
    [] cmp.op = "gt" -> IF cmp.reversed THEN "exclusiveMaximum" ELSE "exclusiveMinimum"
    [] OTHER -> IF cmp.reversed THEN "maximum" ELSE "minimum"

\* C13: n < T gives exclusiveMinimum n, n <= T minimum n, n > T
\* exclusiveMaximum n, n >= T maximum n, as T > n, T >= n, T < n, T <= n do;
\* and a type bounded by exclusiveMinimum 10 and exclusiveMaximum 100 accepts
\* exactly the integers strictly between them.
C13_ReversedComparisonMirrors ==
  (tlast.op = "compare") =>
     /\ tlast.made
     /\ tcur.schema = [tmem.a.schema EXCEPT ![MirroredKey(tmem.cmp)] = IntV(tmem.cmp.n)]
     /\ tcur.schema = [Integer.schema EXCEPT !.exclusiveMinimum = IntV(10),
                                             !.exclusiveMaximum = IntV(100)]
           => \A v \in {9, 10, 11, 50, 99, 100, 101} :
                 instancecheck(tcur, IntV(v)) <=> (10 < v /\ v < 100)

\* C13 witness: Bounded = (10 < Integer) < 100 accepts 50, not 10, not 100
C13_Witness ==
  /\ tlast.op = "compare" /\ tlast.made
  /\ tmem.cmp = [op |-> "lt", n |-> 100, reversed |-> FALSE]
  /\ tmem.a = NumericSchema_compare(Integer, "lt", IntV(10), TRUE)
  /\ instancecheck(tcur, IntV(50))
  /\ ~instancecheck(tcur, IntV(10))
  /\ ~instancecheck(tcur, IntV(100))

C20_AddConcatenatesNames ==
  Added => tcur.name = tmem.a.name \o (IF tmem.b.notitle THEN "" ELSE tmem.b.name)

\* the last definition declared fields on a base that has none of its own
DeclaredAfresh ==
  /\ tlast.op = "class" /\ tlast.made
  /\ tmem.a.ann = <<>> /\ tmem.a.attrs = {}
  /\ ~tmem.a.schema.required.present

\* C16: the required list of a declared record type is the annotated fields
\* without a default value, in declaration order, whatever their names.
C16_RequiredIsFieldsWithoutDefault ==
  DeclaredAfresh =>
     tcur.schema.required.keys = RequiredOf(tmem.decl.ann, tmem.decl.attrs)

\* C29: a class derived from a record type keeps every required key of it.
C29_ChildKeepsRequired ==
  (tlast.op = "class" /\ tlast.made) =>
    SeqToSet(tmem.a.schema.required.keys) \subseteq SeqToSet(tcur.schema.required.keys)

====
